---- MODULE Spec2Model ----
(***************************************************************************)
(* The request gatekeeper of MAKHTECH/management: the token-bucket rate    *)
(* limiter (package ratelimiter), the auth interceptor (package grpc) and  *)
(* the wiring that installs it (package grpcapp).                          *)
(*                                                                         *)
(* Time is counted in ticks, TicksPerSecond ticks to the second.  A token  *)
(* balance (a float64 in the code) is kept as an integer number of         *)
(* 1/TicksPerSecond tokens, so that elapsed * rate is exact: one tick adds *)
(* `rate` units and one whole token is TicksPerSecond units.  Floating     *)
(* point rounding is not modelled.                                         *)
(***************************************************************************)
EXTENDS Integers, Sequences, FiniteSets, TLC

VARIABLES
    rate,        \* TokenBucket.rate: tokens per second
    capacity,    \* TokenBucket.capacity: burst ceiling, in tokens
    cleanup,     \* TokenBucket.cleanup: sweep interval, in ticks
    buckets,     \* TokenBucket.buckets: credential -> [tokens, lastUpdate]
    now,         \* the wall clock read by time.Now(), in ticks
    nextSweep,   \* when the cleanup ticker fires next
    hasLimiter,  \* AuthInterceptor.rateLimiter != nil
    call,        \* the call under observation: the interceptor's position and record
    lastAllow,   \* history: the observed Allow call the latest step made, if any
    lastReset,   \* history: the observed Reset call the latest step made, or the
                 \* step before it if the latest step was an Allow, if any
    exhausted,   \* history, per credential: its latest Allow was rejected
    streak,      \* history, per credential: its current run of closely spaced Allows
    chain,       \* a call through a composed interceptor chain: its position and record
    rateLimiterCfg,  \* the ratelimiter.Config a limiter under construction is given
    app,         \* app.App and the server it built: the process's phase, SSOClient
                 \* and whether the auth interceptor is installed
    connect,     \* App.MustConnectSSO: its position and record
    handler,     \* what the handler of the forwarded call got from the context
                 \* accessors, if it called them
    threads,     \* goroutines inside the limiter: each one's operation, position
                 \* and locals
    mu,          \* TokenBucket.mu: the goroutine holding it, or NoThread
    admits,      \* history, per credential: the times of its admitted Allow calls
    closes       \* history: the errors the Close calls on the Identity Client
                 \* returned, in order

vars == <<rate, capacity, cleanup, buckets, now, nextSweep, hasLimiter, call,
          lastAllow, lastReset, exhausted, streak, chain, rateLimiterCfg,
          app, connect, handler, threads, mu, admits, closes>>

-----------------------------------------------------------------------------
(* Bounds of the model *)

TicksPerSecond == 2
MaxTime == 4
MaxRate == 2
MaxCapacity == 2
MaxCleanup == 1
MaxChain == 3
MaxRetries == 3
MaxReads == 2
IntBits == 8
MaxThreads == 2
MaxCloses == 3

-----
(* Strings as sequences of characters, with the two functions of package   *)
(* strings the interceptor uses.                                           *)

HasPrefix(s, prefix) ==
    /\ Len(s) >= Len(prefix)
    /\ SubSeq(s, 1, Len(prefix)) = prefix

TrimPrefix(s, prefix) ==
    IF HasPrefix(s, prefix) THEN SubSeq(s, Len(prefix) + 1, Len(s)) ELSE s

BearerPrefix == <<"B", "e", "a", "r", "e", "r", " ">>

\* The authorization values calls arrive with.
BearerA == BearerPrefix \o <<"a">>
BearerEmpty == BearerPrefix
TokenA == <<"T", "o", "k", "e", "n", " ", "a">>
BearerNoSpace == <<"B", "e", "a", "r", "e", "r">>

AuthValues == {BearerA, BearerEmpty, TokenA, BearerNoSpace}

\* The credentials those values carry: "a" and the empty string.
Creds == {TrimPrefix(v, BearerPrefix) : v \in {w \in AuthValues : HasPrefix(w, BearerPrefix)}}

-----------------------------------------------------------------------------------------------------------------------------------------------------
(* Token Bucket Limiter *)

DefaultRate == 10
DefaultCleanupSeconds == 300

\* Go's int, IntBits wide here: arithmetic wraps around in two's complement.
MaxInt == 2^(IntBits - 1) - 1
MinInt == -(2^(IntBits - 1))
WrapInt(x) == ((x - MinInt) % 2^IntBits) + MinInt

\* New(cfg): the configuration as normalised by the constructor.
New(cfg) ==
    LET r == IF cfg.Rate <= 0 THEN DefaultRate ELSE cfg.Rate
    IN  [rate |-> r,
         capacity |-> IF cfg.Capacity <= 0 THEN WrapInt(r * 2) ELSE cfg.Capacity,
         cleanup |-> IF cfg.CleanupInterval <= 0
                     THEN DefaultCleanupSeconds * TicksPerSecond
                     ELSE cfg.CleanupInterval]

\* The configurations the limiter is constructed from (CleanupInterval in ticks).
Configs ==
    [Rate : 1..MaxRate, Capacity : 0..MaxCapacity, CleanupInterval : 0..MaxCleanup]

EmptyMap == [x \in {} |-> x]
Put(m, k, v) == [x \in DOMAIN m \cup {k} |-> IF x = k THEN v ELSE m[x]]
DeleteNone(m, k) == m
Delete(m, k) == [x \in DOMAIN m \ {k} |-> m[x]]

\* float64(n): n whole tokens.
Whole(n) == n * TicksPerSecond

\* The bucket Allow creates on first sight of a credential.
NewBucketFull ==
    [tokens |-> Whole(capacity), lastUpdate |-> now]

NewBucket ==
    [tokens |-> Whole(capacity - 1), lastUpdate |-> now]

\* b.tokens += elapsed * rate, elapsed = now - b.lastUpdate.
RefillIgnoresRate(b) == b.tokens + (now - b.lastUpdate)

RefillWholeSeconds(b) ==
    b.tokens + ((now - b.lastUpdate) \div TicksPerSecond) * TicksPerSecond * rate

Refill(b) == b.tokens + (now - b.lastUpdate) * rate

\* if b.tokens > capacity { b.tokens = capacity }
CapNone(t) == t

Cap(t) == IF t > Whole(capacity) THEN Whole(capacity) ELSE t

\* if b.tokens >= 1
HasTokenPositive(t) == t > 0

HasToken(t) == t >= Whole(1)

\* int(b.tokens): truncation toward zero.
ToInt(t) == IF t >= 0 THEN t \div TicksPerSecond ELSE -((-t) \div TicksPerSecond)

\* What Allow(c) returns and the bucket it leaves, from the current state.
AllowResultNoCharge(c) ==
    IF c \notin DOMAIN buckets
    THEN [allowed |-> TRUE, remaining |-> capacity - 1, bucket |-> NewBucket]
    ELSE LET t == Cap(Refill(buckets[c]))
         IN  IF HasToken(t)
             THEN [allowed |-> TRUE, remaining |-> ToInt(t - Whole(1)),
                   bucket |-> [tokens |-> t, lastUpdate |-> now]]
             ELSE [allowed |-> FALSE, remaining |-> 0,
                   bucket |-> [tokens |-> t, lastUpdate |-> now]]

AllowResult(c) ==
    IF c \notin DOMAIN buckets
    THEN [allowed |-> TRUE, remaining |-> capacity - 1, bucket |-> NewBucket]
    ELSE LET t == Cap(Refill(buckets[c]))
         IN  IF HasToken(t)
             THEN [allowed |-> TRUE, remaining |-> ToInt(t - Whole(1)),
                   bucket |-> [tokens |-> t - Whole(1), lastUpdate |-> now]]
             ELSE [allowed |-> FALSE, remaining |-> 0,
                   bucket |-> [tokens |-> t, lastUpdate |-> now]]

NoAllow == [called |-> FALSE, cred |-> <<>>, pre |-> EmptyMap,
            allowed |-> FALSE, remaining |-> 0, wasExhausted |-> FALSE]

NoReset == [called |-> FALSE, cred |-> <<>>, pre |-> EmptyMap, followed |-> FALSE]

NoStreak == [n |-> 0, start |-> 0, rejected |-> FALSE]

\* The run of Allow calls on c that a call made now belongs to.  A call
\* continues the run when c's bucket is the one the previous call of the run
\* left and less than 1/rate seconds have passed since that call.  n counts
\* the calls of the run up to its first rejected call, start is the time of
\* its first call.
NextStreak(c, res) ==
    LET s == streak[c]
        continues == /\ c \in DOMAIN buckets
                     /\ s.n > 0
                     /\ (now - buckets[c].lastUpdate) * rate < TicksPerSecond
    IN  IF continues
        THEN IF s.rejected THEN s
             ELSE [n |-> s.n + 1, start |-> s.start, rejected |-> ~res.allowed]
        ELSE [n |-> 1, start |-> now, rejected |-> ~res.allowed]

AllowReadOnly(c) == buckets' = buckets

\* TokenBucket.Allow(c), under tb.mu: the effect on the bucket map.
Allow(c) == buckets' = Put(buckets, c, AllowResult(c).bucket)

\* The history of an observed Allow(c): what it was called on and returned.
Observe(c) ==
    LET res == AllowResult(c)
    IN  /\ lastAllow' = [called |-> TRUE, cred |-> c, pre |-> buckets,
                         allowed |-> res.allowed, remaining |-> res.remaining,
                         wasExhausted |-> exhausted[c]]
        /\ lastReset' = IF lastReset.called /\ ~lastReset.followed
                        THEN [lastReset EXCEPT !.followed = TRUE]
                        ELSE NoReset
        /\ exhausted' = [exhausted EXCEPT ![c] = ~res.allowed]
        /\ streak' = [streak EXCEPT ![c] = NextStreak(c, res)]

ResetAll(c) ==
    /\ buckets' = EmptyMap
    /\ streak' = [streak EXCEPT ![c] = NoStreak]
    /\ lastAllow' = NoAllow
    /\ UNCHANGED exhausted

\* TokenBucket.Reset(c), under tb.mu: delete(tb.buckets, c).
Reset(c) ==
    /\ buckets' = Delete(buckets, c)
    /\ streak' = [streak EXCEPT ![c] = NoStreak]
    /\ lastAllow' = NoAllow
    /\ UNCHANGED exhausted

\* cleanup_old_buckets: b.lastUpdate.Before(time.Now().Add(-tb.cleanup)).
IsOldInclusive(b) == b.lastUpdate <= now - cleanup

IsOld(b) == b.lastUpdate < now - cleanup

cleanup_all_buckets ==
    /\ buckets' = EmptyMap
    /\ streak' = [c \in DOMAIN streak |-> NoStreak]
    /\ lastAllow' = NoAllow
    /\ lastReset' = NoReset
    /\ UNCHANGED exhausted

cleanup_old_buckets ==
    /\ buckets' = [x \in {c \in DOMAIN buckets : ~IsOld(buckets[c])} |-> buckets[x]]
    /\ streak' = [c \in DOMAIN streak |->
                     IF c \in DOMAIN buckets /\ IsOld(buckets[c])
                     THEN NoStreak ELSE streak[c]]
    /\ lastAllow' = NoAllow
    /\ lastReset' = NoReset
    /\ UNCHANGED exhausted

\* TokenBucket.Stats()
Stats == Cardinality(DOMAIN buckets)

-----
(* Context, metadata and the identity service's answers *)

\* context.WithValue(ctx, key, value)
WithValue(ctx, key, value) == Put(ctx, key, value)

\* The metadata an inbound call carries: none at all, a map without an
\* "authorization" entry, or a map with one or two authorization values.
NoMetadata == [present |-> FALSE, md |-> EmptyMap]
Metadatas ==
    {NoMetadata, [present |-> TRUE, md |-> EmptyMap]}
        \cup {[present |-> TRUE, md |-> Put(EmptyMap, "authorization", <<v>>)] :
                  v \in AuthValues}
        \cup {[present |-> TRUE, md |-> Put(EmptyMap, "authorization", <<TokenA, BearerA>>)]}

\* The context of an inbound call carrying metadata md.
IncomingCtx(md) ==
    IF md.present THEN Put(EmptyMap, "metadata", md.md) ELSE EmptyMap

\* md.Get("authorization")
MDGet(md, key) == IF key \in DOMAIN md THEN md[key] ELSE <<>>

\* extractAccessToken(ctx): [err, token]
ExtractFirstValueUnchecked(ctx) ==
    IF "metadata" \notin DOMAIN ctx
    THEN [err |-> "Unauthenticated", token |-> <<>>]
    ELSE LET values == MDGet(ctx["metadata"], "authorization")
         IN  IF Len(values) = 0
             THEN [err |-> "Unauthenticated", token |-> <<>>]
             ELSE [err |-> "nil", token |-> TrimPrefix(values[1], BearerPrefix)]

extractAccessToken(ctx) ==
    IF "metadata" \notin DOMAIN ctx
    THEN [err |-> "Unauthenticated", token |-> <<>>]
    ELSE LET values == MDGet(ctx["metadata"], "authorization")
         IN  IF Len(values) = 0
             THEN [err |-> "Unauthenticated", token |-> <<>>]
             ELSE IF ~HasPrefix(values[1], BearerPrefix)
                  THEN [err |-> "Unauthenticated", token |-> <<>>]
                  ELSE [err |-> "nil", token |-> TrimPrefix(values[1], BearerPrefix)]

\* What the identity service's ValidateJWT endpoint may answer: a response
\* with the user's attributes, an explicit rejection, or a transport error.
Responses ==
    {[UserId |-> 1, Username |-> "ann", Email |-> "ann@x", PhotoUrl |-> "p1",
      Role |-> "USER", AppId |-> 1, Balance |-> 5],
     [UserId |-> 2, Username |-> "bob", Email |-> "bob@x", PhotoUrl |-> "p2",
      Role |-> "ADMIN", AppId |-> 1, Balance |-> 0]}

NoAnswer == [err |-> "none"]
Rejected == [err |-> "rejected"]
TransportError == [err |-> "transport"]

\* Client.ValidateJWT: (resp, err); any error of the remote call is returned
\* wrapped, a response is returned as is.
ValidateJWT(answer) ==
    IF answer \in Responses
    THEN [err |-> "nil", resp |-> answer]
    ELSE [err |-> answer.err, resp |-> NoAnswer]

SSOAnswers == Responses \cup {Rejected, TransportError}

\* The UserInfo the interceptor builds from the response.
UserInfo(resp) ==
    [UserID |-> resp.UserId, Username |-> resp.Username, Email |-> resp.Email,
     PhotoURL |-> resp.PhotoUrl, Role |-> resp.Role, AppID |-> resp.AppId,
     Balance |-> resp.Balance]

UserContextKey == "user"
AccessTokenContextKey == "access_token"

\* GetUserFromContext, GetAccessTokenFromContext: (value, ok)
GetUserFromContext(ctx) ==
    IF UserContextKey \in DOMAIN ctx
    THEN [ok |-> TRUE, user |-> ctx[UserContextKey]]
    ELSE [ok |-> FALSE, user |-> NoAnswer]

GetAccessTokenFromContext(ctx) ==
    IF AccessTokenContextKey \in DOMAIN ctx
    THEN [ok |-> TRUE, token |-> ctx[AccessTokenContextKey]]
    ELSE [ok |-> FALSE, token |-> <<>>]

MustGetUserFromContextNil(ctx) ==
    [panic |-> FALSE, user |-> GetUserFromContext(ctx).user]

\* MustGetUserFromContext: the user, or panic("user not found in context").
MustGetUserFromContext(ctx) ==
    LET r == GetUserFromContext(ctx)
    IN  IF ~r.ok
        THEN [panic |-> TRUE, user |-> NoAnswer]
        ELSE [panic |-> FALSE, user |-> r.user]

-----------------------------------------------------------------------------
(* Request Interceptor *)

ListPlans == "/management.Management/ListPlans"
GetPlan == "/management.Management/GetPlan"
CreatePlan == "/management.Management/CreatePlan"

Methods == {ListPlans, GetPlan, CreatePlan}

\* grpcapp.New: authInterceptor.SetPublicMethods(...)
publicMethods == {ListPlans, GetPlan}

IdleCall ==
    [pc |-> "idle", kind |-> "none", method |-> "none", ctx |-> EmptyMap,
     token |-> <<>>, allowed |-> "unset", answer |-> NoAnswer, result |-> "none", handlerCtx |-> EmptyMap,
     nAllow |-> 0, nValidate |-> 0, nHandler |-> 0,
     reads |-> 0, lastRead |-> EmptyMap]

\* A call as it enters the interceptor.
Entered(kind, method, md) ==
    [IdleCall EXCEPT !.kind = kind, !.method = method, !.ctx = IncomingCtx(md)]

\* return handler(ctx, req): the next stage runs with context hctx.
Forward(c, hctx) ==
    [c EXCEPT !.pc = "done", !.result = "forwarded", !.handlerCtx = hctx,
              !.nHandler = c.nHandler + 1]

\* return nil, err
Reject(c, code) == [c EXCEPT !.pc = "done", !.result = code]

\* The context the handler gets after a successful validation: the identity
\* and the raw credential bound under their two keys.
AuthenticatedUserOnly(ctx, resp, token) ==
    WithValue(ctx, UserContextKey, UserInfo(resp))

Authenticated(ctx, resp, token) ==
    WithValue(WithValue(ctx, UserContextKey, UserInfo(resp)),
              AccessTokenContextKey, token)

\* UnaryInterceptor, from entry to the end of credential extraction.
UnaryEnterNoPublicCheck(c) ==
    LET ex == extractAccessToken(c.ctx)
    IN  IF ex.err # "nil"
        THEN Reject(c, ex.err)
        ELSE [c EXCEPT !.pc = "limit", !.token = ex.token]

UnaryEnter(c) ==
    IF c.method \in publicMethods
    THEN Forward(c, c.ctx)
    ELSE LET ex == extractAccessToken(c.ctx)
         IN  IF ex.err # "nil"
             THEN Reject(c, ex.err)
             ELSE [c EXCEPT !.pc = "limit", !.token = ex.token]

\* UnaryInterceptor after Allow returned `allowed`.
UnaryLimitedProceeds(c, allowed) ==
    [c EXCEPT !.nAllow = c.nAllow + 1,
              !.allowed = IF allowed THEN "yes" ELSE "no",
              !.pc = "validate"]

UnaryLimited(c, allowed) ==
    LET d == [c EXCEPT !.nAllow = c.nAllow + 1,
                       !.allowed = IF allowed THEN "yes" ELSE "no"]
    IN  IF ~allowed
        THEN Reject(d, "ResourceExhausted")
        ELSE [d EXCEPT !.pc = "validate"]

\* UnaryInterceptor after ValidateJWT returned v.
UnaryValidatedFailOpen(c, v) ==
    LET d == [c EXCEPT !.nValidate = c.nValidate + 1]
    IN  IF v.err # "nil"
        THEN Forward(d, c.ctx)
        ELSE Forward(d, Authenticated(c.ctx, v.resp, c.token))

UnaryValidated(c, v) ==
    LET d == [c EXCEPT !.nValidate = c.nValidate + 1]
    IN  IF v.err # "nil"
        THEN Reject(d, "Unauthenticated")
        ELSE Forward(d, Authenticated(c.ctx, v.resp, c.token))

\* StreamInterceptor, from entry to the end of credential extraction.
StreamEnter(c) ==
    IF c.method \in publicMethods
    THEN Forward(c, c.ctx)
    ELSE LET ex == extractAccessToken(c.ctx)
         IN  IF ex.err # "nil"
             THEN Reject(c, ex.err)
             ELSE [c EXCEPT !.pc = "limit", !.token = ex.token]

\* StreamInterceptor after Allow returned `allowed`.
StreamLimitedAgain(c, allowed) ==
    LET d == [c EXCEPT !.nAllow = c.nAllow + 1,
                       !.allowed = IF allowed THEN "yes" ELSE "no"]
    IN  IF ~allowed
        THEN [d EXCEPT !.pc = "limit"]
        ELSE [d EXCEPT !.pc = "validate"]

StreamLimited(c, allowed) ==
    LET d == [c EXCEPT !.nAllow = c.nAllow + 1,
                       !.allowed = IF allowed THEN "yes" ELSE "no"]
    IN  IF ~allowed
        THEN Reject(d, "ResourceExhausted")
        ELSE [d EXCEPT !.pc = "validate"]

\* StreamInterceptor after ValidateJWT returned v: the handler gets the
\* wrapped stream, whose Context() is the augmented context.
StreamValidatedUnwrapped(c, v) ==
    LET d == [c EXCEPT !.nValidate = c.nValidate + 1]
    IN  IF v.err # "nil"
        THEN Reject(d, "Unauthenticated")
        ELSE Forward(d, c.ctx)

StreamValidated(c, v) ==
    LET d == [c EXCEPT !.nValidate = c.nValidate + 1]
    IN  IF v.err # "nil"
        THEN Reject(d, "Unauthenticated")
        ELSE Forward(d, Authenticated(c.ctx, v.resp, c.token))

\* The context a handler reads during the call: the ctx it was called with
\* (unary), or Context() of the stream it was given, which for the wrapped
\* stream is its ctx field.
HandlerContext(c) == c.handlerCtx

ContextRead(c) == [c EXCEPT !.reads = c.reads + 1, !.lastRead = HandlerContext(c)]

\* No handler has called the context accessors.
NoGets ==
    [called |-> FALSE, of |-> IdleCall,
     user |-> GetUserFromContext(EmptyMap),
     token |-> GetAccessTokenFromContext(EmptyMap),
     must |-> [panic |-> FALSE, user |-> NoAnswer]]

\* The handler of call c calls the three accessors on its context.
Gets(c) ==
    [called |-> TRUE, of |-> c,
     user |-> GetUserFromContext(HandlerContext(c)),
     token |-> GetAccessTokenFromContext(HandlerContext(c)),
     must |-> MustGetUserFromContext(HandlerContext(c))]

Enter(c) == IF c.kind = "unary" THEN UnaryEnter(c) ELSE StreamEnter(c)
Limited(c, allowed) ==
    IF c.kind = "unary" THEN UnaryLimited(c, allowed) ELSE StreamLimited(c, allowed)
Validated(c, v) ==
    IF c.kind = "unary" THEN UnaryValidated(c, v) ELSE StreamValidated(c, v)

-----------------------------------------------------------------------------------------------------------------------------------------------------------------------------------------------------------------------------
(* Interceptor Chain Builder *)

\* What an interceptor of a chain does with the handler it is given: call it
\* and return its result, or return an error without calling it.
Behaviours == {"next", "stop"}

InterceptorLists == UNION {[1..n -> Behaviours] : n \in 0..MaxChain}

\* A handler value is the sequence of the layers it runs, outermost first; the
\* terminal handler is the empty sequence.
NoChain ==
    [pc |-> "idle", kind |-> "none", interceptors |-> <<>>, info |-> "none",
     i |-> 0, chainHandler |-> <<>>, trace |-> <<>>, nHandler |-> 0]

\* The composed entry point is called: var chainHandler = handler, and the
\* loop starts at the last interceptor.
ChainEntered(kind, interceptors, info) ==
    [NoChain EXCEPT !.pc = "build", !.kind = kind, !.interceptors = interceptors,
                    !.info = info, !.i = Len(interceptors)]

\* chainHandler = func(...) { return currentInterceptor(..., info, innerHandler) }
WrapInside(i, innerHandler) == innerHandler \o <<i>>

Wrap(i, innerHandler) == <<i>> \o innerHandler

\* chainUnaryInterceptors: one turn of the loop over the interceptors, from
\* the last to the first, and after it `return chainHandler(ctx, req)`.
chainUnaryInterceptors(ch) ==
    IF ch.i >= 1
    THEN [ch EXCEPT !.chainHandler = Wrap(ch.i, ch.chainHandler), !.i = ch.i - 1]
    ELSE [ch EXCEPT !.pc = "call"]

\* chainStreamInterceptors: the same for stream interceptors.
chainStreamInterceptors(ch) ==
    IF ch.i >= 1
    THEN [ch EXCEPT !.chainHandler = Wrap(ch.i, ch.chainHandler), !.i = ch.i - 1]
    ELSE [ch EXCEPT !.pc = "call"]

\* A handler value is called: the terminal handler runs, or the layer at its
\* head runs with the call's info and the rest as its handler.
ChainHandlerCall(ch) ==
    IF ch.chainHandler = <<>>
    THEN [ch EXCEPT !.pc = "done", !.nHandler = ch.nHandler + 1]
    ELSE LET k == Head(ch.chainHandler)
             seen == Append(ch.trace, [layer |-> k, info |-> ch.info])
         IN  IF ch.interceptors[k] = "next"
             THEN [ch EXCEPT !.trace = seen, !.chainHandler = Tail(ch.chainHandler)]
             ELSE [ch EXCEPT !.trace = seen, !.pc = "done"]

-----------------------------------------------------------------------------
(* Application: app.New, grpcapp.New, App.MustConnectSSO and main *)

\* The zero ratelimiter.Config; rateLimiterCfg holds it whenever no constructor call is
\* under observation.
ZeroConfig == [Rate |-> 0, Capacity |-> 0, CleanupInterval |-> 0]

\* grpcapp.New: the auth interceptor is installed if and only if it is given
\* an Identity Client.
GrpcAppNewAlwaysInstalls(ssoClient) == TRUE

GrpcAppNew(ssoClient) == ssoClient # "nil"

\* The process before app.New.
StartingApp ==
    [phase |-> "init", SSOClient |-> "nil", authInstalled |-> FALSE, startup |-> "none"]

\* app.New, sso.New having connected (ok) or failed: on failure ssoClient = nil
\* and the application is built all the same.
AppNew(ok) ==
    LET ssoClient == IF ok THEN "open" ELSE "nil"
    IN  [phase |-> "serving", SSOClient |-> ssoClient,
         authInstalled |-> GrpcAppNew(ssoClient),
         startup |-> IF ok THEN "connected" ELSE "failed"]

\* The application serving with the interceptor installed.
ServingApp == AppNew(TRUE)

\* c.conn.Close() of the gRPC client connection: the first call tears the
\* connection down and returns nil, a call on a connection already closed
\* returns ErrClientConnClosing.
ConnClose(conn) ==
    [conn |-> "closed",
     err |-> IF conn = "open" THEN "nil" ELSE "ErrClientConnClosing"]

\* Client.Close: if c.conn != nil { return c.conn.Close() }; return nil.
\* A client is "unconnected" (conn == nil), "open" or "closed"; c.conn is
\* not cleared.
Close(client) ==
    IF client # "unconnected"
    THEN ConnClose(client)
    ELSE [conn |-> client, err |-> "nil"]

StopUnclosed(a) == [a EXCEPT !.phase = "closing"]

\* App.Stop up to a.GRPCSrv.Stop(): closes the Identity Client, if there is
\* one; the error is logged.  No function of the repository calls Stop; main
\* does not.
StopClosed(a) ==
    [a EXCEPT !.SSOClient = IF a.SSOClient # "nil" THEN Close(a.SSOClient).conn ELSE "nil",
              !.phase = "closing"]

\* a.GRPCSrv.Stop(): GracefulStop stops accepting calls and waits for the
\* calls in flight.
GracefulStop(a) == [a EXCEPT !.phase = "draining"]

\* GracefulStop returns when no call is in flight, and Stop with it.
Stopped(a) == [a EXCEPT !.phase = "stopped"]

\* App.Stop, no call in flight.
Stop(a) == Stopped(GracefulStop(StopClosed(a)))

\* The phases in which the server accepts calls.
Accepting == {"serving", "closing"}

\* What ValidateJWT can come back with: on a closed connection the RPC fails.
AnswersOf(client) == IF client = "closed" THEN {TransportError} ELSE SSOAnswers

StoreClientAndInstall(a) == [a EXCEPT !.SSOClient = "open", !.authInstalled = TRUE]

\* MustConnectSSO on success: a.SSOClient = ssoClient.
StoreClient(a) == [a EXCEPT !.SSOClient = "open"]

NoConnect == [pc |-> "idle", maxRetries |-> 0, i |-> 0, attempts |-> 0, waits |-> <<>>]

\* MustConnectSSO(cfg, maxRetries), up to the loop: if a.SSOClient != nil { return }.
MustConnectSSO(a, maxRetries) ==
    IF a.SSOClient # "nil"
    THEN [NoConnect EXCEPT !.pc = "done", !.maxRetries = maxRetries]
    ELSE [NoConnect EXCEPT !.pc = IF 0 < maxRetries THEN "attempt" ELSE "done",
                           !.maxRetries = maxRetries]

\* One sso.New of the loop has returned: on success the loop is left, on
\* failure the sleep comes next.
Attempted(cn, ok) ==
    [cn EXCEPT !.attempts = cn.attempts + 1, !.pc = IF ok THEN "done" ELSE "sleep"]

\* time.Sleep(time.Second * time.Duration(i+1)); continue
SleepSecondsConstant(i) == 1

SleepSeconds(i) == i + 1

Slept(cn) ==
    [cn EXCEPT !.waits = Append(cn.waits, SleepSeconds(cn.i)),
               !.i = cn.i + 1,
               !.pc = IF cn.i + 1 < cn.maxRetries THEN "attempt" ELSE "done"]

-----------------------------------------------------------------------------
(* Actions *)

configVars == <<rate, capacity, cleanup, hasLimiter>>
\* The goroutines that call into the limiter: the tasks of the calls in
\* flight and the one started by New for startCleanup.
Threads == 1..MaxThreads
Sweeper == MaxThreads + 1
Goroutines == Threads \cup {Sweeper}
NoThread == 0

\* A goroutine outside the limiter.  Inside, op is the method it runs, pc its
\* position (lock, in, store, unlock, done), cred its argument, res what Allow
\* computed before its stores, pre the bucket map it computed that from.
IdleThread ==
    [pc |-> "idle", op |-> "none", cred |-> <<>>, pre |-> EmptyMap,
     res |-> [allowed |-> FALSE, remaining |-> 0,
              bucket |-> [tokens |-> 0, lastUpdate |-> 0]]]

\* The goroutine enters Allow(c), Reset(c) or cleanup_old_buckets.
Called(op, c) == [IdleThread EXCEPT !.pc = "lock", !.op = op, !.cred = c]

LockNoExclusion(m) == TRUE

\* tb.mu.Lock() returns when no goroutine holds the mutex.
CanLock(m) == m = NoThread

\* Allow, from the map lookup to the decision: the reads, and what they give.
AllowRead(th) == [th EXCEPT !.pc = "store", !.pre = buckets, !.res = AllowResult(th.cred)]

NoAdmits == [c \in Creds |-> <<>>]

observers == <<handler, threads, mu, admits, closes>>
wiring == <<chain, rateLimiterCfg, app, connect, observers>>
history == <<lastAllow, lastReset, exhausted, streak>>
gatekeeper == <<configVars, buckets, history, now, nextSweep, call, observers>>

\* Nothing but the program's own state: no handler has called an accessor,
\* no goroutine is inside the limiter, no admission is on record.
Unobserved ==
    /\ handler = NoGets
    /\ threads = [t \in Goroutines |-> IdleThread]
    /\ mu = NoThread
    /\ admits = NoAdmits
    /\ closes = <<>>

\* A call arrives and runs the interceptor up to the end of credential
\* extraction.
Arrive ==
    /\ app.phase \in Accepting
    /\ app.authInstalled
    /\ call.pc \in {"idle", "done"}
    /\ \E kind \in {"unary", "stream"}, method \in Methods, md \in Metadatas :
           call' = Enter(Entered(kind, method, md))
    /\ UNCHANGED <<configVars, wiring, buckets, history, now, nextSweep>>

\* if i.rateLimiter != nil { allowed, remaining := i.rateLimiter.Allow(accessToken) ... }
RateLimitUnguarded ==
    /\ call.pc = "limit"
    /\ Allow(call.token)
    /\ call' = Limited(call, AllowResult(call.token).allowed)
    /\ UNCHANGED <<configVars, wiring, history, now, nextSweep>>

RateLimit ==
    /\ call.pc = "limit"
    /\ IF hasLimiter
       THEN /\ Allow(call.token)
            /\ call' = Limited(call, AllowResult(call.token).allowed)
       ELSE /\ call' = [call EXCEPT !.pc = "validate"]
            /\ UNCHANGED buckets
    /\ UNCHANGED <<configVars, wiring, history, now, nextSweep>>

\* userResp, err := i.ssoClient.ValidateJWT(ctx, accessToken), and the rest of
\* the interceptor.
Validate ==
    /\ call.pc = "validate"
    /\ \E answer \in AnswersOf(app.SSOClient) :
           call' = Validated([call EXCEPT !.answer = answer], ValidateJWT(answer))
    /\ UNCHANGED <<configVars, wiring, buckets, history, now, nextSweep>>

\* Another call in flight reaches the limiter: Allow(c).  The calls in flight
\* share no state but the limiter.
OtherAllow(c) ==
    /\ hasLimiter
    /\ Allow(c)
    /\ UNCHANGED <<configVars, wiring, history, call, now, nextSweep>>

\* A client of the limiter calls Allow(c), and the call is observed.
AllowCall(c) ==
    /\ hasLimiter
    /\ Allow(c)
    /\ Observe(c)
    /\ UNCHANGED <<configVars, wiring, call, now, nextSweep>>

\* Reset(c) is called.
ResetCall(c) ==
    /\ hasLimiter
    /\ Reset(c)
    /\ lastReset' = NoReset
    /\ UNCHANGED <<configVars, wiring, call, now, nextSweep>>

\* A client of the limiter calls Reset(c), and the call is observed.
ResetObserved(c) ==
    /\ hasLimiter
    /\ Reset(c)
    /\ lastReset' = [called |-> TRUE, cred |-> c, pre |-> buckets, followed |-> FALSE]
    /\ UNCHANGED <<configVars, wiring, call, now, nextSweep>>

\* startCleanup: the ticker fires every `cleanup` and the sweep runs.
Sweep ==
    /\ hasLimiter
    /\ now = nextSweep
    /\ cleanup_old_buckets
    /\ nextSweep' = nextSweep + cleanup
    /\ UNCHANGED <<configVars, wiring, call, now>>

\* Time passes, up to the next firing of the cleanup ticker.
Tick ==
    /\ now < MaxTime
    /\ hasLimiter => now < nextSweep
    /\ now' = now + 1
    /\ lastAllow' = NoAllow
    /\ lastReset' = NoReset
    /\ UNCHANGED <<configVars, wiring, buckets, exhausted, streak, call, nextSweep>>

Constructed(configs, limiters) ==
    /\ \E c \in configs :
           LET tb == New(c)
           IN  /\ rate = tb.rate
               /\ capacity = tb.capacity
               /\ cleanup = tb.cleanup
    /\ hasLimiter \in limiters
    /\ buckets = EmptyMap
    /\ now = 0
    /\ nextSweep = cleanup
    /\ lastAllow = NoAllow
    /\ lastReset = NoReset
    /\ exhausted = [c \in Creds |-> FALSE]
    /\ streak = [c \in Creds |-> NoStreak]
    /\ call = IdleCall
    /\ chain = NoChain
    /\ rateLimiterCfg = ZeroConfig
    /\ connect = NoConnect
    /\ Unobserved

\* The configurations a caller may hand to New: any int for Rate and
\* Capacity, any duration for CleanupInterval.
AnyConfigs ==
    [Rate : {-1, 0, 1, MaxRate, MaxInt \div 2, MaxInt \div 2 + 1, MaxInt},
     Capacity : {MinInt, -1, 0, 1, MaxCapacity, MaxInt},
     CleanupInterval : {-1, 0, MaxCleanup}]

\* Before ratelimiter.New: the caller holds a Config, there is no limiter yet.
NewInit ==
    /\ rateLimiterCfg \in AnyConfigs
    /\ rate = 0 /\ capacity = 0 /\ cleanup = 0
    /\ hasLimiter = FALSE
    /\ buckets = EmptyMap
    /\ now = 0
    /\ nextSweep = 0
    /\ lastAllow = NoAllow
    /\ lastReset = NoReset
    /\ exhausted = [c \in Creds |-> FALSE]
    /\ streak = [c \in Creds |-> NoStreak]
    /\ call = IdleCall
    /\ chain = NoChain
    /\ connect = NoConnect
    /\ Unobserved
    /\ app = StartingApp

\* rl := ratelimiter.New(rateLimiterCfg)
Construct ==
    /\ ~hasLimiter
    /\ LET tb == New(rateLimiterCfg)
       IN  /\ rate' = tb.rate
           /\ capacity' = tb.capacity
           /\ cleanup' = tb.cleanup
           /\ nextSweep' = now + tb.cleanup
    /\ hasLimiter' = TRUE
    /\ UNCHANGED <<buckets, history, now, call, wiring>>

NewSpec == NewInit /\ [][Construct]_vars

\* The limiter constructed and the application serving, its interceptor
\* installed.
InitWith(configs, limiters) ==
    /\ Constructed(configs, limiters)
    /\ app = ServingApp

\* The limiter on its own, its calls observed, under every configuration.
LimiterInit == InitWith(Configs, {TRUE})

LimiterNext ==
    \/ \E c \in Creds : AllowCall(c)
    \/ \E c \in Creds : ResetCall(c)
    \/ Sweep
    \/ Tick

LimiterSpec == LimiterInit /\ [][LimiterNext]_vars

\* The limiter with its Reset calls observed.
ResetNext ==
    \/ \E c \in Creds : AllowCall(c)
    \/ \E c \in Creds : ResetObserved(c)
    \/ Sweep
    \/ Tick

ResetSpec == LimiterInit /\ [][ResetNext]_vars

\* The limiter whose buckets only its sweeps remove.
SweepNext ==
    \/ \E c \in Creds : AllowCall(c)
    \/ Sweep
    \/ Tick

SweepSpec == LimiterInit /\ [][SweepNext]_vars

\* The limiter constructed from the zero Config, which New turns into rate 10
\* and capacity 20, serving one credential.  Its first sweep is five minutes
\* away.
ScenarioInit == InitWith({ZeroConfig}, {TRUE})

ScenarioNext ==
    \/ AllowCall(<<"a">>)
    \/ Tick

ScenarioSpec == ScenarioInit /\ [][ScenarioNext]_vars

\* The handler of a forwarded call reads its context.
ReadContext ==
    /\ call.pc = "done"
    /\ call.result = "forwarded"
    /\ call.reads < MaxReads
    /\ call' = ContextRead(call)
    /\ UNCHANGED <<configVars, wiring, buckets, history, now, nextSweep>>

\* The interceptor, with and without a limiter, and the handlers it calls.
CallInit ==
    InitWith({c \in Configs : c.Rate = 1 /\ c.Capacity = 1 /\ c.CleanupInterval = 0},
             BOOLEAN)

CallNext ==
    \/ Arrive
    \/ RateLimit
    \/ Validate
    \/ ReadContext
    \/ Tick

CallSpec == CallInit /\ [][CallNext]_vars

\* A call enters the function chainUnaryInterceptors or
\* chainStreamInterceptors returned for a list of interceptors.
ChainArrive ==
    /\ chain.pc \in {"idle", "done"}
    /\ \E kind \in {"unary", "stream"}, ics \in InterceptorLists, info \in Methods :
           chain' = ChainEntered(kind, ics, info)
    /\ UNCHANGED <<gatekeeper, rateLimiterCfg, app, connect>>

\* One turn of the loop that wraps the handler, or the end of the loop.
ChainBuild ==
    /\ chain.pc = "build"
    /\ chain' = IF chain.kind = "unary"
                THEN chainUnaryInterceptors(chain)
                ELSE chainStreamInterceptors(chain)
    /\ UNCHANGED <<gatekeeper, rateLimiterCfg, app, connect>>

\* The handler built so far is called: by the composed function, or by the
\* layer that was given it.
ChainInvoke ==
    /\ chain.pc = "call"
    /\ chain' = ChainHandlerCall(chain)
    /\ UNCHANGED <<gatekeeper, rateLimiterCfg, app, connect>>

ChainNext ==
    \/ ChainArrive
    \/ ChainBuild
    \/ ChainInvoke

ChainSpec == InitWith({ZeroConfig}, {TRUE}) /\ [][ChainNext]_vars

\* main: application := app.New(cfg, db).
Startup ==
    /\ app.phase = "init"
    /\ \E ok \in BOOLEAN : app' = AppNew(ok)
    /\ UNCHANGED <<gatekeeper, chain, rateLimiterCfg, connect>>

\* A call reaches a server built without the interceptor: the handler runs
\* on the call as it came.
ServeDirect ==
    /\ app.phase = "serving"
    /\ ~app.authInstalled
    /\ call.pc \in {"idle", "done"}
    /\ \E kind \in {"unary", "stream"}, method \in Methods, md \in Metadatas :
           LET c == Entered(kind, method, md)
           IN  call' = Forward(c, c.ctx)
    /\ UNCHANGED <<configVars, wiring, buckets, history, now, nextSweep>>

\* MustConnectSSO(cfg, maxRetries) is called.
MustConnectStart ==
    /\ app.phase = "serving"
    /\ connect.pc \in {"idle", "done"}
    /\ \E maxRetries \in 0..MaxRetries : connect' = MustConnectSSO(app, maxRetries)
    /\ UNCHANGED <<gatekeeper, chain, rateLimiterCfg, app>>

\* ssoClient, err := sso.New(...): on success a.SSOClient = ssoClient; return.
ConnectAttempt ==
    /\ app.phase = "serving"
    /\ connect.pc = "attempt"
    /\ \E ok \in BOOLEAN :
           /\ connect' = Attempted(connect, ok)
           /\ app' = IF ok THEN StoreClient(app) ELSE app
    /\ UNCHANGED <<gatekeeper, chain, rateLimiterCfg>>

\* The sleep after a failed attempt, and the loop's i++ and test.
ConnectSleep ==
    /\ app.phase = "serving"
    /\ connect.pc = "sleep"
    /\ connect' = Slept(connect)
    /\ UNCHANGED <<gatekeeper, chain, rateLimiterCfg, app>>

\* main: <-quit; db.Close(); return.
Shutdown ==
    /\ app.phase = "serving"
    /\ app' = [app EXCEPT !.phase = "exited"]
    /\ UNCHANGED <<gatekeeper, chain, rateLimiterCfg, connect>>

\* The handler of a forwarded call calls GetUserFromContext,
\* GetAccessTokenFromContext and MustGetUserFromContext.
HandlerGets ==
    /\ app.phase = "serving"
    /\ call.pc = "done"
    /\ call.result = "forwarded"
    /\ handler' = Gets(call)
    /\ UNCHANGED <<configVars, buckets, history, now, nextSweep, call,
                   chain, rateLimiterCfg, app, connect, threads, mu, admits, closes>>

\* The process from before app.New to its exit, serving calls.
AppInit ==
    /\ Constructed({c \in Configs : c.Rate = 1 /\ c.Capacity = 1
                                      /\ c.CleanupInterval = MaxCleanup}, {TRUE})
    /\ app = StartingApp

AppNext ==
    \/ Startup
    \/ Arrive
    \/ ServeDirect
    \/ RateLimit
    \/ Validate
    \/ MustConnectStart
    \/ ConnectAttempt
    \/ ConnectSleep
    \/ Shutdown

AppSpec == AppInit /\ [][AppNext]_vars

\* application.Stop() is called: the part before a.GRPCSrv.Stop().
StopClose ==
    /\ app.phase = "serving"
    /\ app' = StopClosed(app)
    /\ closes' = IF app.SSOClient # "nil"
                 THEN Append(closes, Close(app.SSOClient).err)
                 ELSE closes
    /\ UNCHANGED <<configVars, buckets, history, now, nextSweep, call,
                   chain, rateLimiterCfg, connect, handler, threads, mu, admits>>

\* a.GRPCSrv.Stop() is entered: from here no call is accepted.
StopServer ==
    /\ app.phase = "closing"
    /\ app' = GracefulStop(app)
    /\ UNCHANGED <<gatekeeper, chain, rateLimiterCfg, connect>>

\* GracefulStop returns: the calls in flight have ended.
StopReturn ==
    /\ app.phase = "draining"
    /\ call.pc \in {"idle", "done"}
    /\ app' = Stopped(app)
    /\ UNCHANGED <<gatekeeper, chain, rateLimiterCfg, connect>>

\* The owner of the Identity Client calls Close on it.
CloseCall ==
    /\ app.phase # "init"
    /\ app.SSOClient # "nil"
    /\ Len(closes) < MaxCloses
    /\ app' = [app EXCEPT !.SSOClient = Close(app.SSOClient).conn]
    /\ closes' = Append(closes, Close(app.SSOClient).err)
    /\ UNCHANGED <<configVars, buckets, history, now, nextSweep, call,
                   chain, rateLimiterCfg, connect, handler, threads, mu, admits>>

\* The process serving calls until its host calls application.Stop(), the
\* Identity Client closed by Stop and by its owner.
StopNext ==
    \/ Startup
    \/ Arrive
    \/ ServeDirect
    \/ RateLimit
    \/ Validate
    \/ StopClose
    \/ StopServer
    \/ StopReturn
    \/ CloseCall

StopSpec == AppInit /\ [][StopNext]_vars

\* A goroutine calls Allow(c) or Reset(c).
Go(t) ==
    /\ hasLimiter
    /\ threads[t].pc = "idle"
    /\ \E op \in {"Allow", "Reset"}, c \in Creds :
           threads' = [threads EXCEPT ![t] = Called(op, c)]
    /\ UNCHANGED <<configVars, buckets, history, now, nextSweep, call, chain,
                   rateLimiterCfg, app, connect, handler, mu, admits, closes>>

\* startCleanup: the ticker fires and the goroutine New started calls
\* cleanup_old_buckets, its previous pass over.
SweepGo ==
    /\ hasLimiter
    /\ threads[Sweeper].pc \in {"idle", "done"}
    /\ now = nextSweep
    /\ threads' = [threads EXCEPT ![Sweeper] = Called("cleanup", <<>>)]
    /\ nextSweep' = nextSweep + cleanup
    /\ UNCHANGED <<configVars, buckets, history, now, call, chain, rateLimiterCfg,
                   app, connect, handler, mu, admits, closes>>

\* tb.mu.Lock()
Lock(t) ==
    /\ threads[t].pc = "lock"
    /\ CanLock(mu)
    /\ mu' = t
    /\ threads' = [threads EXCEPT ![t].pc = "in"]
    /\ UNCHANGED <<configVars, buckets, history, now, nextSweep, call, chain,
                   rateLimiterCfg, app, connect, handler, admits, closes>>

\* Allow after tb.mu.Lock(): the lookup, time.Now() and the arithmetic.
AllowLoad(t) ==
    /\ threads[t].pc = "in"
    /\ threads[t].op = "Allow"
    /\ threads' = [threads EXCEPT ![t] = AllowRead(threads[t])]
    /\ UNCHANGED <<configVars, buckets, history, now, nextSweep, call, chain,
                   rateLimiterCfg, app, connect, handler, mu, admits, closes>>

\* Allow: the stores to the map and the bucket.
AllowStore(t) ==
    /\ threads[t].pc = "store"
    /\ buckets' = Put(buckets, threads[t].cred, threads[t].res.bucket)
    /\ threads' = [threads EXCEPT ![t].pc = "unlock"]
    /\ UNCHANGED <<configVars, history, now, nextSweep, call, chain,
                   rateLimiterCfg, app, connect, handler, mu, admits, closes>>

\* Reset after tb.mu.Lock(): delete(tb.buckets, accessToken).
ResetBody(t) ==
    /\ threads[t].pc = "in"
    /\ threads[t].op = "Reset"
    /\ Reset(threads[t].cred)
    /\ threads' = [threads EXCEPT ![t].pc = "unlock"]
    /\ UNCHANGED <<configVars, lastReset, now, nextSweep, call, chain,
                   rateLimiterCfg, app, connect, handler, mu, admits, closes>>

\* cleanup_old_buckets after tb.mu.Lock(): the pass over the map.
SweepBody(t) ==
    /\ threads[t].pc = "in"
    /\ threads[t].op = "cleanup"
    /\ cleanup_old_buckets
    /\ threads' = [threads EXCEPT ![t].pc = "unlock"]
    /\ UNCHANGED <<configVars, now, nextSweep, call, chain,
                   rateLimiterCfg, app, connect, handler, mu, admits, closes>>

\* The deferred tb.mu.Unlock(), and the return.
Unlock(t) ==
    /\ threads[t].pc = "unlock"
    /\ mu' = IF mu = t THEN NoThread ELSE mu
    /\ threads' = [threads EXCEPT ![t].pc = "done"]
    /\ UNCHANGED <<configVars, buckets, history, now, nextSweep, call, chain,
                   rateLimiterCfg, app, connect, handler, admits, closes>>

\* The limiter under concurrent calls and the sweep, one operation per
\* goroutine.
ConcurrentInit ==
    InitWith({c \in Configs : c.Rate = 1 /\ c.Capacity >= 1
                                 /\ c.CleanupInterval = MaxCleanup}, {TRUE})

ConcurrentNext ==
    \/ \E t \in Threads : Go(t)
    \/ SweepGo
    \/ \E t \in Goroutines : Lock(t)
    \/ \E t \in Threads : AllowLoad(t)
    \/ \E t \in Threads : AllowStore(t)
    \/ \E t \in Threads : ResetBody(t)
    \/ SweepBody(Sweeper)
    \/ \E t \in Goroutines : Unlock(t)
    \/ Tick

ConcurrentSpec == ConcurrentInit /\ [][ConcurrentNext]_vars

\* A client of the limiter calls Allow(c), and an admission is put on record.
AllowCounted(c) ==
    /\ hasLimiter
    /\ Allow(c)
    /\ admits' = IF AllowResult(c).allowed
                 THEN [admits EXCEPT ![c] = Append(@, now)]
                 ELSE admits
    /\ UNCHANGED <<configVars, history, call, now, nextSweep, chain, rateLimiterCfg,
                   app, connect, handler, threads, mu, closes>>

\* The limiter under Allow calls and its sweep, no Reset, the sweep interval
\* shorter than capacity/rate.
WindowInit ==
    InitWith({c \in Configs : c.Capacity >= 1 /\ c.CleanupInterval = MaxCleanup}, {TRUE})

WindowNext ==
    \/ \E c \in Creds : AllowCounted(c)
    \/ Sweep
    \/ Tick

WindowSpec == WindowInit /\ [][WindowNext]_vars

\* The interceptor and its limiter, beside other calls in flight and clients
\* of the limiter whose Reset calls are observed, all at one instant.
FrameInit ==
    InitWith({c \in Configs : c.Rate = 1 /\ c.Capacity >= 1
                                 /\ c.CleanupInterval = MaxCleanup}, {TRUE})

FrameNext ==
    \/ Arrive
    \/ RateLimit
    \/ Validate
    \/ \E c \in Creds : OtherAllow(c)
    \/ \E c \in Creds : ResetObserved(c)

FrameSpec == FrameInit /\ [][FrameNext]_vars

\* The server, built with or without the interceptor, and the handlers of
\* the calls it forwards.
HandlerNext ==
    \/ Startup
    \/ Arrive
    \/ ServeDirect
    \/ RateLimit
    \/ Validate
    \/ HandlerGets

HandlerSpec == AppInit /\ [][HandlerNext]_vars

\* The same, where an attempt and a sleep of MustConnectSSO each come to an
\* end: sso.New returns within its timeout, time.Sleep within its duration.
LifecycleSpec ==
    /\ AppInit
    /\ [][AppNext]_vars
    /\ WF_vars(ConnectAttempt)
    /\ WF_vars(ConnectSleep)

\* The interceptor, with and without a limiter, beside other calls in flight.
Init == InitWith({cfg \in Configs : cfg.Rate = 1 /\ cfg.CleanupInterval = MaxCleanup}, BOOLEAN)

Next ==
    \/ Arrive
    \/ RateLimit
    \/ Validate
    \/ \E c \in Creds : OtherAllow(c)
    \/ \E c \in Creds : ResetCall(c)
    \/ Sweep
    \/ Tick

Spec == Init /\ [][Next]_vars

-----------------------------------------------------------------------------
(* Properties of the interceptor, checked under Spec *)

\* The authorization value v starts with the exact prefix "Bearer ".
StartsWithBearer(v) ==
    /\ Len(v) >= Len(BearerPrefix)
    /\ \A k \in 1..Len(BearerPrefix) : v[k] = BearerPrefix[k]

\* The call's metadata is missing, has no authorization entry, or its first
\* authorization value lacks the prefix.
BadCredential(ctx) ==
    \/ "metadata" \notin DOMAIN ctx
    \/ "authorization" \notin DOMAIN ctx["metadata"]
    \/ Len(ctx["metadata"]["authorization"]) = 0
    \/ ~StartsWithBearer(ctx["metadata"]["authorization"][1])

NonPublic == call.pc # "idle" /\ call.method \notin publicMethods

\* C1: a non-public call, unary or stream, with a well-formed "Bearer "
\* credential for which Allow returned not-admitted is rejected as
\* ResourceExhausted, and neither ValidateJWT nor the next handler is invoked
\* for it; ValidateJWT is invoked only after the limiter, when there is one,
\* has admitted the call.
C1_RateLimitedBeforeIdentity ==
    /\ (NonPublic /\ ~BadCredential(call.ctx) /\ call.allowed = "no")
           => /\ call.pc = "done"
              /\ call.result = "ResourceExhausted"
              /\ call.nValidate = 0
              /\ call.nHandler = 0
    /\ (call.pc = "validate" \/ call.nValidate > 0)
           => (hasLimiter => call.nAllow = 1 /\ call.allowed = "yes")

C1_Witness ==
    /\ NonPublic
    /\ ~BadCredential(call.ctx)
    /\ call.allowed = "no"
    /\ call.result = "ResourceExhausted"
    /\ call.kind = "unary"

\* C2: a call to a method of the Public-Method Set is forwarded to the next
\* handler exactly once, with the context it came with, whatever its
\* metadata, and neither Allow nor ValidateJWT is invoked for it.
C2_PublicForwarded ==
    (call.pc # "idle" /\ call.method \in {ListPlans, GetPlan})
        => /\ call.pc = "done"
           /\ call.result = "forwarded"
           /\ call.nHandler = 1
           /\ call.handlerCtx = call.ctx
           /\ call.nAllow = 0
           /\ call.nValidate = 0

C2_Witness ==
    /\ call.method = GetPlan
    /\ call.kind = "unary"
    /\ ~BadCredential(call.ctx)
    /\ call.nHandler = 1
    /\ call.handlerCtx = call.ctx

\* C3: a non-public call whose metadata is missing, has no authorization
\* entry, or whose first authorization value does not start with "Bearer "
\* is rejected as Unauthenticated; the limiter, the Identity Client and the
\* next handler are not invoked.
C3_BadCredentialUnauthenticated ==
    (NonPublic /\ BadCredential(call.ctx))
        => /\ call.pc = "done"
           /\ call.result = "Unauthenticated"
           /\ call.nAllow = 0
           /\ call.nValidate = 0
           /\ call.nHandler = 0

C3_Witness ==
    /\ NonPublic
    /\ call.ctx = IncomingCtx([present |-> TRUE,
                               md |-> Put(EmptyMap, "authorization", <<TokenA>>)])
    /\ call.result = "Unauthenticated"
    /\ call.nValidate = 0

\* C4: when ValidateJWT fails, by a transport error or by an explicit
\* rejection alike, the call is rejected as Unauthenticated and the next
\* handler is not invoked; the handler runs for a call only if the call was
\* not rejected.
C4_ValidationFailureUnauthenticated ==
    /\ (call.answer \in {Rejected, TransportError})
           => /\ call.pc = "done"
              /\ call.result = "Unauthenticated"
              /\ call.nValidate = 1
              /\ call.nHandler = 0
    /\ call.nHandler > 0 => call.result = "forwarded"
    /\ call.result \in {"Unauthenticated", "ResourceExhausted"} => call.nHandler = 0

C4_Witness ==
    /\ NonPublic
    /\ call.answer = TransportError
    /\ call.nValidate = 1
    /\ call.result = "Unauthenticated"

\* C5: the context handed to the next handler holds the Verified Identity
\* (under UserContextKey) and the raw credential (under AccessTokenContextKey)
\* exactly when ValidateJWT succeeded for the call, and then they are the
\* identity the service answered and the credential the call carried; a call
\* forwarded as public or rejected carries neither.
C5_IdentityIffValidated ==
    LET validated == call.answer \in Responses
        hasUser == "user" \in DOMAIN call.handlerCtx
        hasToken == "access_token" \in DOMAIN call.handlerCtx
    IN  /\ validated => call.nHandler = 1 /\ call.result = "forwarded"
        /\ hasUser <=> validated
        /\ hasToken <=> validated
        /\ validated =>
               /\ call.handlerCtx["user"].UserID = call.answer.UserId
               /\ call.handlerCtx["user"].Role = call.answer.Role
               /\ Len(call.ctx["metadata"]["authorization"][1])
                      = Len(BearerPrefix) + Len(call.handlerCtx["access_token"])
               /\ call.ctx["metadata"]["authorization"][1]
                      = BearerPrefix \o call.handlerCtx["access_token"]
               /\ call.handlerCtx["metadata"] = call.ctx["metadata"]
        /\ (call.method \in publicMethods \/ call.result # "forwarded")
               => ~hasUser /\ ~hasToken

C5_Witness ==
    /\ call.kind = "stream"
    /\ call.nHandler = 1
    /\ call.answer \in Responses
    /\ GetUserFromContext(call.handlerCtx).ok
    /\ GetAccessTokenFromContext(call.handlerCtx).ok
    /\ GetAccessTokenFromContext(call.handlerCtx).token = <<"a">>

-----------------------------------------------------------------------------
(* Properties of the limiter, checked under LimiterSpec.  lastAllow describes *)
(* the Allow call of the step that led to the current state: its credential,  *)
(* the bucket map it found (pre) and what it returned; buckets and now are    *)
(* the map it left and the time it read.                                      *)

Min(a, b) == IF a <= b THEN a ELSE b

\* The balance an Allow call at time `now` computes for a bucket it found as
\* b: elapsed * rate more, at most capacity.
Replenished(b) ==
    Min(b.tokens + (now - b.lastUpdate) * rate, capacity * TicksPerSecond)

\* Every bucket but c's is as the call found it.
OthersKept(c) ==
    /\ DOMAIN buckets \ {c} = DOMAIN lastAllow.pre \ {c}
    /\ \A d \in DOMAIN buckets \ {c} : buckets[d] = lastAllow.pre[d]

\* C6: Allow on a credential with no bucket admits, creates one bucket, for
\* that credential, holding capacity - 1 tokens with lastUpdate = now, and
\* reports remaining = capacity - 1.
C6_FirstSight ==
    (lastAllow.called /\ lastAllow.cred \notin DOMAIN lastAllow.pre)
        => /\ lastAllow.allowed
           /\ lastAllow.remaining = capacity - 1
           /\ DOMAIN buckets = DOMAIN lastAllow.pre \cup {lastAllow.cred}
           /\ buckets[lastAllow.cred].tokens = (capacity - 1) * TicksPerSecond
           /\ buckets[lastAllow.cred].lastUpdate = now
           /\ OthersKept(lastAllow.cred)

C6_Witness ==
    /\ lastAllow.called
    /\ lastAllow.cred \notin DOMAIN lastAllow.pre
    /\ lastAllow.pre # EmptyMap
    /\ lastAllow.allowed
    /\ Cardinality(DOMAIN buckets) = Cardinality(DOMAIN lastAllow.pre) + 1

\* C7: Allow on an existing bucket adds elapsed * rate tokens, capped at
\* capacity, and sets lastUpdate = now; if the balance is then at least 1 it
\* subtracts exactly 1, admits and reports the floor of the new balance;
\* otherwise it rejects, reports 0 and leaves the refilled balance as it is.
C7_ExistingBucket ==
    (lastAllow.called /\ lastAllow.cred \in DOMAIN lastAllow.pre)
        => LET c == lastAllow.cred
               t == Replenished(lastAllow.pre[c])
           IN  /\ c \in DOMAIN buckets
               /\ buckets[c].lastUpdate = now
               /\ IF t >= TicksPerSecond
                  THEN /\ lastAllow.allowed
                       /\ buckets[c].tokens = t - TicksPerSecond
                       /\ lastAllow.remaining * TicksPerSecond <= buckets[c].tokens
                       /\ buckets[c].tokens < (lastAllow.remaining + 1) * TicksPerSecond
                  ELSE /\ ~lastAllow.allowed
                       /\ lastAllow.remaining = 0
                       /\ buckets[c].tokens = t

\* An admitted call that left a balance with a fractional part, after a refill.
C7_Witness ==
    /\ lastAllow.called
    /\ lastAllow.cred \in DOMAIN lastAllow.pre
    /\ lastAllow.allowed
    /\ buckets[lastAllow.cred].tokens > lastAllow.pre[lastAllow.cred].tokens
    /\ buckets[lastAllow.cred].tokens % TicksPerSecond # 0
    /\ lastAllow.remaining * TicksPerSecond < buckets[lastAllow.cred].tokens

\* C8: in every reachable state of the limiter, after any interleaving of
\* Allow, Reset and sweeps, every bucket's tokens lie in [0, capacity].
C8_TokensInRange ==
    \A c \in DOMAIN buckets :
        /\ buckets[c].tokens >= 0
        /\ buckets[c].tokens <= capacity * TicksPerSecond

\* A call found a bucket whose refill went past capacity and was capped.
C8_Witness ==
    /\ lastAllow.called
    /\ lastAllow.cred \in DOMAIN lastAllow.pre
    /\ LET b == lastAllow.pre[lastAllow.cred]
       IN  b.tokens + (now - b.lastUpdate) * rate > capacity * TicksPerSecond
    /\ buckets[lastAllow.cred].tokens = (capacity - 1) * TicksPerSecond
    /\ \E d \in DOMAIN buckets : buckets[d].tokens = 0

\* C9, as stated: in a run of Allow calls on one credential, consecutive
\* calls less than 1/rate seconds apart, with more than capacity calls, some
\* call has returned not-admitted.
C9_Original ==
    \A c \in Creds : streak[c].n > capacity => streak[c].rejected

\* C9, amended: such a run, as long as the credential's bucket is not removed
\* by Reset or a sweep, holds a rejected call once its number of calls exceeds
\* capacity + rate * (the time from its first call to its latest).
C9_BurstBound ==
    \A c \in Creds :
        (streak[c].n > 0 /\ ~streak[c].rejected) =>
            /\ c \in DOMAIN buckets
            /\ streak[c].n * TicksPerSecond
                   <= capacity * TicksPerSecond
                          + rate * (buckets[c].lastUpdate - streak[c].start)

\* A run of calls spread over time whose first rejected call is a later one
\* than call capacity + 1.
C9_Witness ==
    LET c == lastAllow.cred
    IN  /\ lastAllow.called
        /\ ~lastAllow.allowed
        /\ streak[c].rejected
        /\ streak[c].n > capacity + 1
        /\ buckets[c].lastUpdate > streak[c].start
        /\ streak[c].n * TicksPerSecond
               > capacity * TicksPerSecond + rate * (buckets[c].lastUpdate - streak[c].start)

\* C10: if the latest Allow on a credential was rejected and the next Allow
\* on it comes at least capacity/rate seconds later, that call finds the
\* balance replenished to exactly capacity and admits, leaving capacity - 1;
\* so it does, as on first sight, if the bucket was removed meanwhile.
C10_ReplenishedAfterIdle ==
    LET c == lastAllow.cred
    IN  (/\ lastAllow.called
         /\ lastAllow.wasExhausted
         /\ \/ c \notin DOMAIN lastAllow.pre
            \/ (now - lastAllow.pre[c].lastUpdate) * rate >= capacity * TicksPerSecond)
            => /\ lastAllow.allowed
               /\ lastAllow.remaining = capacity - 1
               /\ buckets[c].tokens = (capacity - 1) * TicksPerSecond
               /\ buckets[c].lastUpdate = now

\* The exhausted bucket was still there and had been idle for longer than
\* capacity/rate seconds.
C10_Witness ==
    LET c == lastAllow.cred
    IN  /\ lastAllow.called
        /\ lastAllow.wasExhausted
        /\ c \in DOMAIN lastAllow.pre
        /\ lastAllow.pre[c].tokens < TicksPerSecond
        /\ (now - lastAllow.pre[c].lastUpdate) * rate > capacity * TicksPerSecond
        /\ lastAllow.allowed
        /\ lastAllow.remaining = capacity - 1

-----------------------------------------------------------------------------
(* The limiter of rate 10 and capacity 20, checked under ScenarioSpec *)

\* C11: with rate 10 and capacity 20, of the Allow calls made on one
\* credential at the moment of its first call, the k-th is admitted with
\* remaining 20 - k for k = 1..20, and the 21st and every later one is
\* rejected with remaining 0; an Allow made exactly one second after such a
\* rejected call is admitted with remaining 9.
C11_BurstOfTwentyFive ==
    LET c == lastAllow.cred
        k == streak[c].n
    IN  /\ rate = 10 /\ capacity = 20
        /\ (lastAllow.called /\ now = 0) =>
               /\ k >= 1 /\ k <= 21
               /\ streak[c].start = 0
               /\ k <= 20 => /\ lastAllow.allowed
                             /\ ~streak[c].rejected
                             /\ lastAllow.remaining = 20 - k
               /\ k = 21 => /\ ~lastAllow.allowed
                            /\ streak[c].rejected
                            /\ lastAllow.remaining = 0
        /\ (/\ lastAllow.called
            /\ lastAllow.wasExhausted
            /\ c \in DOMAIN lastAllow.pre
            /\ lastAllow.pre[c].tokens = 0
            /\ now - lastAllow.pre[c].lastUpdate = TicksPerSecond)
               => /\ lastAllow.allowed
                  /\ lastAllow.remaining = 9
                  /\ buckets[c].tokens = 9 * TicksPerSecond

\* A call of the burst was rejected at time 0, and the call one second
\* later was admitted.
C11_Witness ==
    LET c == lastAllow.cred
    IN  /\ lastAllow.called
        /\ lastAllow.wasExhausted
        /\ lastAllow.pre[c] = [tokens |-> 0, lastUpdate |-> 0]
        /\ now = TicksPerSecond
        /\ lastAllow.allowed
        /\ lastAllow.remaining = 9

-----------------------------------------------------------------------------
(* Reset, checked under ResetSpec.  lastReset describes the Reset call of the *)
(* latest step, or of the step before it when the latest step was an Allow    *)
(* (followed): its credential and the bucket map it found (pre).              *)

\* C12: Reset(c) removes c's bucket, if there is one, and nothing else; on a
\* credential without a bucket it changes nothing.  An Allow(c) made right
\* after Reset(c) is admitted, reports remaining = capacity - 1 and leaves c
\* a bucket of capacity - 1 tokens with lastUpdate = now, as on a credential
\* never seen, whatever bucket c had before the Reset.
C12_ResetThenAllow ==
    LET c == lastReset.cred
    IN  /\ (lastReset.called /\ ~lastReset.followed) =>
               /\ DOMAIN buckets = DOMAIN lastReset.pre \ {c}
               /\ \A d \in DOMAIN buckets : buckets[d] = lastReset.pre[d]
               /\ c \notin DOMAIN lastReset.pre => buckets = lastReset.pre
        /\ (lastReset.called /\ lastReset.followed /\ lastAllow.cred = c) =>
               /\ lastAllow.called
               /\ c \notin DOMAIN lastAllow.pre
               /\ lastAllow.allowed
               /\ lastAllow.remaining = capacity - 1
               /\ buckets[c].tokens = (capacity - 1) * TicksPerSecond
               /\ buckets[c].lastUpdate = now
               /\ DOMAIN buckets = DOMAIN lastReset.pre \cup {c}
               /\ \A d \in DOMAIN buckets \ {c} : buckets[d] = lastReset.pre[d]

\* The Reset found the credential's bucket exhausted, beside another
\* credential's bucket, and the Allow right after it was admitted.
C12_Witness ==
    LET c == lastReset.cred
    IN  /\ lastReset.called
        /\ lastReset.followed
        /\ lastAllow.cred = c
        /\ c \in DOMAIN lastReset.pre
        /\ lastReset.pre[c].tokens < TicksPerSecond
        /\ lastReset.pre[c].lastUpdate = now
        /\ lastAllow.wasExhausted
        /\ DOMAIN lastReset.pre # {c}
        /\ lastAllow.allowed
        /\ capacity >= 2

-----------------------------------------------------------------------------
(* The sweep, checked under SweepSpec, where a step that moves nextSweep is a *)
(* firing of the cleanup ticker.                                              *)

\* C13: a sweep removes every bucket whose lastUpdate is more than cleanup
\* before the time of the sweep and keeps every other bucket as it is, and
\* creates none; so Stats() after the sweep counts exactly the buckets touched
\* within the last cleanup interval.
C13_SweepRemovesOld ==
    [][nextSweep' # nextSweep =>
          /\ now' = now
          /\ DOMAIN buckets' \subseteq DOMAIN buckets
          /\ \A c \in DOMAIN buckets :
                 IF now - buckets[c].lastUpdate > cleanup
                 THEN c \notin DOMAIN buckets'
                 ELSE c \in DOMAIN buckets' /\ buckets'[c] = buckets[c]
          /\ Stats' = Cardinality({c \in DOMAIN buckets :
                                      now - buckets[c].lastUpdate <= cleanup})
          /\ Stats' <= Stats]_vars

\* A sweep has just fired: it removed the bucket of a credential seen before
\* and kept another, which was touched within the interval.
C13_Witness ==
    /\ now > 0
    /\ nextSweep = now + cleanup
    /\ Stats = 1
    /\ \E c \in Creds : exhausted[c] /\ c \notin DOMAIN buckets
    /\ \E d \in DOMAIN buckets : buckets[d].lastUpdate = now - cleanup

-----------------------------------------------------------------------------
(* The chain builder, checked under ChainSpec.  chain.trace lists the layers  *)
(* that have run, in the order they ran, each with the info it was given.     *)

\* The first layer of the list that does not call its handler, or the length
\* of the list if every layer does.
LastLayerRun(ics) ==
    LET stops == {k \in 1..Len(ics) : ics[k] # "next"}
    IN  IF stops = {} THEN Len(ics)
        ELSE CHOOSE k \in stops : \A j \in stops : k <= j

\* C14: the composed unary and stream functions run I1 first, then each
\* I(k+1) as the handler of Ik, then H as the handler of In, every layer with
\* the info of the call; with no interceptors they run H at once; the layers
\* inside one that does not call its handler, and H, do not run; H runs at
\* most once.
C14_ChainOrder ==
    LET ics == chain.interceptors
        m == LastLayerRun(ics)
        passes == \A k \in 1..Len(ics) : ics[k] = "next"
    IN  /\ \A j \in 1..Len(chain.trace) :
               chain.trace[j] = [layer |-> j, info |-> chain.info]
        /\ Len(chain.trace) <= m
        /\ chain.nHandler > 0 => /\ chain.nHandler = 1
                                 /\ passes
                                 /\ Len(chain.trace) = Len(ics)
                                 /\ chain.pc = "done"
        /\ chain.pc = "done" => /\ Len(chain.trace) = m
                                /\ chain.nHandler = IF passes THEN 1 ELSE 0

\* A stream call went through three layers to H.
C14_Witness ==
    /\ chain.pc = "done"
    /\ chain.kind = "stream"
    /\ Len(chain.interceptors) = 3
    /\ Len(chain.trace) = 3
    /\ chain.trace[3].layer = 3
    /\ chain.nHandler = 1
    /\ chain.info = CreatePlan

-----------------------------------------------------------------------------
(* Unary and stream interceptors compared, checked under CallSpec *)

\* The call record the interceptor of the given kind ends with, for a method,
\* an incoming context, a limiter (or none) that answers `allowed`, and an
\* identity service that answers `answer`.
Outcome(kind, method, ctx, limiter, allowed, answer) ==
    LET c0 == [IdleCall EXCEPT !.kind = kind, !.method = method, !.ctx = ctx]
        c1 == IF kind = "unary" THEN UnaryEnter(c0) ELSE StreamEnter(c0)
        c2 == IF c1.pc # "limit" THEN c1
              ELSE IF ~limiter THEN [c1 EXCEPT !.pc = "validate"]
              ELSE IF kind = "unary" THEN UnaryLimited(c1, allowed)
              ELSE StreamLimited(c1, allowed)
        c3 == IF c2.pc # "validate" THEN c2
              ELSE IF kind = "unary"
                   THEN UnaryValidated([c2 EXCEPT !.answer = answer], ValidateJWT(answer))
                   ELSE StreamValidated([c2 EXCEPT !.answer = answer], ValidateJWT(answer))
    IN  c3

\* C15: a finished call ended as its interceptor decides for its method,
\* metadata, limiter answer and identity answer, and for these and any other
\* answers the stream interceptor decides as the unary one: the same result
\* code, the same calls of Allow, ValidateJWT and the handler, the same context
\* for the handler; every Context() read of a forwarded stream returns that
\* context, with the identity the service answered and the credential of the
\* call when it was validated.
C15_StreamAsUnary ==
    /\ call.pc = "done" =>
           /\ [call EXCEPT !.reads = 0, !.lastRead = EmptyMap]
                  = Outcome(call.kind, call.method, call.ctx, hasLimiter,
                            call.allowed # "no", call.answer)
           /\ \A allowed \in BOOLEAN, answer \in SSOAnswers :
                  LET u == Outcome("unary", call.method, call.ctx, hasLimiter, allowed, answer)
                      t == Outcome("stream", call.method, call.ctx, hasLimiter, allowed, answer)
                  IN  /\ t.result = u.result
                      /\ t.nAllow = u.nAllow
                      /\ t.nValidate = u.nValidate
                      /\ t.nHandler = u.nHandler
                      /\ t.token = u.token
                      /\ t.handlerCtx = u.handlerCtx
                      /\ t = [u EXCEPT !.kind = "stream"]
    /\ call.reads > 0 =>
           /\ call.lastRead = call.handlerCtx
           /\ call.answer \in Responses =>
                  /\ GetUserFromContext(call.lastRead).ok
                  /\ GetUserFromContext(call.lastRead).user = UserInfo(call.answer)
                  /\ GetAccessTokenFromContext(call.lastRead).ok
                  /\ BearerPrefix \o GetAccessTokenFromContext(call.lastRead).token
                         = call.ctx["metadata"]["authorization"][1]

\* A validated stream call whose handler read the context twice.
C15_Witness ==
    /\ call.kind = "stream"
    /\ call.method = CreatePlan
    /\ call.answer \in Responses
    /\ call.allowed = "yes"
    /\ call.reads = 2
    /\ GetUserFromContext(call.lastRead).ok
    /\ GetUserFromContext(call.lastRead).user.Role = "ADMIN"

-----------------------------------------------------------------------------
(* The application, checked under AppSpec *)

\* C16: app.New with a failed sso.New still returns the application, its
\* server built without the auth interceptor: every call, public or not,
\* whatever its metadata, goes to the handler with the context it came with,
\* and no credential is extracted, Allow and ValidateJWT are not called.  With
\* a connected client the interceptor is installed, and a call whose
\* validation failed is never forwarded.
C16_FailOpenAtStartupOnly ==
    /\ app.phase # "init" =>
           /\ app.startup \in {"connected", "failed"}
           /\ app.authInstalled <=> app.startup = "connected"
    /\ (app.phase # "init" /\ app.startup = "failed" /\ call.pc # "idle") =>
           /\ call.pc = "done"
           /\ call.result = "forwarded"
           /\ call.nHandler = 1
           /\ call.handlerCtx = call.ctx
           /\ call.token = <<>>
           /\ call.nAllow = 0
           /\ call.nValidate = 0
           /\ buckets = EmptyMap
    /\ (app.startup = "connected" /\ call.answer \in {Rejected, TransportError}) =>
           /\ call.result = "Unauthenticated"
           /\ call.nHandler = 0

\* After a failed start a non-public call without metadata reached the handler.
C16_Witness ==
    /\ app.phase = "serving"
    /\ app.startup = "failed"
    /\ app.SSOClient = "nil"
    /\ call.method = CreatePlan
    /\ call.ctx = EmptyMap
    /\ call.result = "forwarded"
    /\ call.nHandler = 1

-----------------------------------------------------------------------------
(* The interceptor without a limiter, checked under Spec *)

\* C17: an interceptor constructed with a nil limiter never calls Allow and
\* never answers ResourceExhausted; its non-public call with a well-formed
\* credential goes from credential extraction to ValidateJWT and ends
\* forwarded or Unauthenticated, as the identity service answers.
C17_NilLimiterNeverLimits ==
    ~hasLimiter =>
        /\ call.result # "ResourceExhausted"
        /\ call.nAllow = 0
        /\ call.allowed = "unset"
        /\ buckets = EmptyMap
        /\ (NonPublic /\ ~BadCredential(call.ctx)) =>
               /\ call.pc \in {"limit", "validate", "done"}
               /\ call.pc = "done" =>
                      /\ call.nValidate = 1
                      /\ call.answer \in Responses => call.result = "forwarded"
                      /\ call.answer \notin Responses => call.result = "Unauthenticated"

\* Without a limiter a unary call with an empty credential was validated and
\* forwarded.
C17_Witness ==
    /\ ~hasLimiter
    /\ call.kind = "unary"
    /\ NonPublic
    /\ call.ctx = IncomingCtx([present |-> TRUE,
                               md |-> Put(EmptyMap, "authorization", <<BearerEmpty>>)])
    /\ call.nValidate = 1
    /\ call.nAllow = 0
    /\ call.result = "forwarded"

-----------------------------------------------------------------------------
(* The constructor, checked under NewSpec *)

\* C18: the limiter New builds has rate = 10 if Rate <= 0 and Rate otherwise,
\* capacity = 2 * that rate if Capacity <= 0 and Capacity otherwise, cleanup =
\* 5 minutes if CleanupInterval <= 0 and CleanupInterval otherwise; so its
\* rate and capacity are at least 1 and its cleanup is positive.
C18_NewNormalises ==
    hasLimiter =>
        /\ rate = IF rateLimiterCfg.Rate <= 0 THEN 10 ELSE rateLimiterCfg.Rate
        /\ capacity = IF rateLimiterCfg.Capacity <= 0 THEN 2 * rate
                      ELSE rateLimiterCfg.Capacity
        /\ cleanup = IF rateLimiterCfg.CleanupInterval <= 0
                     THEN 5 * 60 * TicksPerSecond
                     ELSE rateLimiterCfg.CleanupInterval
        /\ rate >= 1
        /\ capacity >= 1
        /\ cleanup > 0

-----------------------------------------------------------------------------
(* MustConnectSSO, checked under LifecycleSpec *)

\* What holds of MustConnectSSO at every moment of a run.
ConnectBounded ==
    /\ connect.attempts <= connect.maxRetries
    /\ Len(connect.waits) <= connect.attempts
    /\ \A j \in 1..Len(connect.waits) : connect.waits[j] = j
    /\ connect.pc \in {"attempt", "sleep"} =>
           /\ app.SSOClient = "nil"
           /\ Len(connect.waits) = IF connect.pc = "sleep" THEN connect.attempts - 1
                                   ELSE connect.attempts
    /\ connect.pc = "done" =>
           \/ /\ connect.attempts = 0
              /\ connect.waits = <<>>
              /\ app.SSOClient # "nil" \/ connect.maxRetries = 0
           \/ /\ connect.attempts > 0
              /\ app.SSOClient = "open"
              /\ Len(connect.waits) = connect.attempts - 1
           \/ /\ connect.attempts = connect.maxRetries
              /\ Len(connect.waits) = connect.maxRetries
              /\ app.SSOClient = "nil"

\* C19: MustConnectSSO makes at most maxRetries attempts and sleeps i seconds
\* after its i-th failed attempt; it makes none if the application has a
\* client; it returns at the first success, the client stored, or after
\* maxRetries failures and sleeps, the application still without a client;
\* and once called it returns, unless the process exits first.
C19_BoundedReconnect ==
    /\ []ConnectBounded
    /\ (connect.pc \in {"attempt", "sleep"})
           ~> (connect.pc = "done" \/ app.phase = "exited")

\* Every attempt failed: MaxRetries attempts, sleeps of 1, 2, ... seconds,
\* and the application goes on serving without a client.
C19_Witness ==
    /\ connect.pc = "done"
    /\ connect.maxRetries = MaxRetries
    /\ connect.attempts = MaxRetries
    /\ Len(connect.waits) = MaxRetries
    /\ connect.waits[MaxRetries] = MaxRetries
    /\ app.SSOClient = "nil"
    /\ app.phase = "serving"
    /\ ~app.authInstalled

-----------------------------------------------------------------------------
(* Shutdown, checked under AppSpec *)

\* C20: when the process has exited on a shutdown signal, having started
\* with a connected Identity Client, that client's connection has been closed.
C20_ClientReleasedOnShutdown ==
    (app.phase = "exited" /\ app.startup = "connected") => app.SSOClient = "closed"

-----------------------------------------------------------------------------
(* Properties of the context accessors, checked under HandlerSpec *)

\* The call was forwarded with an identity bound to its context: it went
\* through ValidateJWT.
Identified(c) == c.nValidate = 1

\* C21: on the context of a call forwarded without a bound identity (a public
\* method, or a server without the interceptor) MustGetUserFromContext
\* panics while GetUserFromContext and GetAccessTokenFromContext return
\* ok = false; on the context of an authenticated call all three return the
\* values the interceptor bound.
C21_Accessors ==
    handler.called =>
        LET c == handler.of
        IN  /\ ~Identified(c) <=> (c.method \in publicMethods \/ ~app.authInstalled)
            /\ ~Identified(c) =>
                   /\ handler.must.panic
                   /\ ~handler.user.ok
                   /\ ~handler.token.ok
            /\ Identified(c) =>
                   /\ ~handler.must.panic
                   /\ handler.must.user = UserInfo(c.answer)
                   /\ handler.user = [ok |-> TRUE, user |-> UserInfo(c.answer)]
                   /\ handler.token = [ok |-> TRUE, token |-> c.token]

C21_Witness ==
    /\ handler.called
    /\ handler.must.panic
    /\ ~handler.user.ok
    /\ app.authInstalled
    /\ handler.of.method \in publicMethods
    /\ handler.of.result = "forwarded"

-----------------------------------------------------------------------------
(* Properties of the Identity Client's Close, checked under StopSpec *)

\* C22: Close releases the connection and may be called any number of times
\* with the same successful outcome, also on a client that never connected:
\* every Close call returns nil and leaves the connection closed.
C22_CloseIdempotent ==
    /\ \A k \in 1..Len(closes) : closes[k] = "nil"
    /\ Len(closes) >= 1 => app.SSOClient = "closed"

-----------------------------------------------------------------------------
(* Properties of the limiter under concurrency, checked under ConcurrentSpec *)

\* The goroutines that have run Allow(c) to the end of its stores.
Stored(c) ==
    {t \in Threads : /\ threads[t].op = "Allow" /\ threads[t].cred = c
                     /\ threads[t].pc \in {"unlock", "done"}}

Admitted(c) == {t \in Stored(c) : threads[t].res.allowed}

\* No Reset(c) has touched the map.
Unreset(c) ==
    \A t \in Threads :
        (threads[t].op = "Reset" /\ threads[t].cred = c) => threads[t].pc \in {"lock", "in"}

Max(a, b) == IF a >= b THEN a ELSE b

\* C23: concurrent Allow calls for one credential, beside concurrent Reset
\* and sweep calls, are atomic: between an Allow's reads and its stores no
\* other goroutine changes the map, and with no time elapsing N calls on a
\* never-seen credential leave exactly one bucket, admit min(N, capacity) and
\* leave max(capacity - N, 0) whole tokens, so that N calls on a bucket of k
\* whole tokens admit min(N, k) and leave max(k - N, 0).
C23_AllowAtomic ==
    /\ \A t \in Threads : threads[t].pc = "store" => buckets = threads[t].pre
    /\ \A c \in Creds :
           (now = 0 /\ Unreset(c)) =>
               LET n == Cardinality(Stored(c))
               IN  /\ Cardinality(Admitted(c)) = Min(n, capacity)
                   /\ (n = 0) <=> (c \notin DOMAIN buckets)
                   /\ n > 0 => buckets[c].tokens = Whole(Max(capacity - n, 0))

C23_Witness ==
    /\ now = 0
    /\ \E c \in Creds :
           /\ Unreset(c)
           /\ Cardinality(Stored(c)) = MaxThreads
           /\ Cardinality(Admitted(c)) = capacity
           /\ capacity < MaxThreads

\* Goroutine t is inside cleanup_old_buckets, holding tb.mu.
Sweeping(t) == threads[t].op = "cleanup" /\ mu = t

\* Goroutine u has called Allow and waits in tb.mu.Lock().
Waiting(u) == threads[u].op = "Allow" /\ threads[u].pc = "lock"

\* The sweep that holds the lock is not removing c's bucket.
NotRemoving(c) == c \notin DOMAIN buckets \/ ~IsOld(buckets[c])

\* C24 as stated: the sweep does not block Allow checks for credentials whose
\* buckets it is not removing: no Allow for such a credential waits for the
\* lock while a sweep holds it.
C24_SweepBlocksNoUnrelatedAllow ==
    \A u \in Threads :
        ~(Sweeping(Sweeper) /\ Waiting(u) /\ NotRemoving(threads[u].cred))

\* C24 as amended: the sweep runs independently of call traffic and holds the
\* limiter's one lock only for its pass over the map: while it holds the lock
\* it is at the pass or at the unlock, never waiting for a call, Allow checks
\* of every credential wait until then, and the pass leaves every bucket it
\* is not removing as it was.
C24_SweepHoldsLockForOnePass ==
    /\ [](Sweeping(Sweeper) => threads[Sweeper].pc \in {"in", "unlock"})
    /\ [](\A u \in Threads : (Waiting(u) /\ ~ENABLED Lock(u)) => mu # NoThread)
    /\ [][(Sweeping(Sweeper) /\ threads[Sweeper].pc = "in"
              /\ threads'[Sweeper].pc = "unlock") =>
                  \A c \in DOMAIN buckets :
                      ~IsOld(buckets[c]) =>
                          c \in DOMAIN buckets' /\ buckets'[c] = buckets[c]]_vars

C24_Witness ==
    \E u \in Threads :
        /\ Sweeping(Sweeper)
        /\ threads[Sweeper].pc = "unlock"
        /\ Waiting(u)
        /\ NotRemoving(threads[u].cred)
        /\ \E d \in Creds :
               /\ d \notin DOMAIN buckets
               /\ Stored(d) # {}
               /\ Unreset(d)

-----------------------------------------------------------------------------
(* Properties of one call's pass through the interceptor, checked under Spec *)

\* C25: within one call the interceptor invokes the limiter's Allow at most
\* once, ValidateJWT at most once and the next handler at most once.
C25_AtMostOnce ==
    /\ call.nAllow <= 1
    /\ call.nValidate <= 1
    /\ call.nHandler <= 1

C25_Witness ==
    /\ call.pc = "done"
    /\ call.nAllow = 1
    /\ call.nValidate = 1
    /\ call.nHandler = 1

-----------------------------------------------------------------------------
(* Properties of the limiter over time, checked under WindowSpec *)

\* C26: without Reset, for every credential and every time window of length
\* T the number of admitted Allow calls is at most capacity + rate * T, also
\* across sweeps that delete and re-create the bucket: any run of admissions
\* from the i-th to the j-th, T the time between them, has at most that many.
C26_WindowBound ==
    \A c \in Creds :
        \A i, j \in 1..Len(admits[c]) :
            i <= j =>
                Whole(j - i + 1) <= Whole(capacity) + rate * (admits[c][j] - admits[c][i])

-----------------------------------------------------------------------------
(* Properties of the application's wiring over its lifetime, checked under AppSpec *)

\* C27: if the Identity Client was unavailable when the server was built,
\* authentication stays disabled for the server's lifetime: a later
\* successful MustConnectSSO only stores the client in App.SSOClient, the
\* interceptor is never installed, and every call, before and after the
\* reconnection, is forwarded without limiter or identity check.
C27_AuthStaysDisabled ==
    /\ [](app.startup = "failed" =>
             /\ ~app.authInstalled
             /\ call.pc \in {"idle", "done"}
             /\ call.nAllow = 0 /\ call.nValidate = 0)
    /\ [][(app.startup = "failed" /\ app.SSOClient = "open" /\ call' # call) =>
              /\ call'.result = "forwarded"
              /\ call'.handlerCtx = call'.ctx
              /\ ~GetUserFromContext(call'.handlerCtx).ok]_vars

C27_Witness ==
    /\ app.startup = "failed"
    /\ app.SSOClient = "open"
    /\ connect.pc = "done"
    /\ connect.attempts >= 2
    /\ call.pc = "done"
    /\ call.result = "forwarded"
    /\ call.method \notin publicMethods
    /\ BadCredential(call.ctx)

-----------------------------------------------------------------------------
(* Properties of App.Stop, checked under StopSpec *)

-----------------------------------------------------------------------------
(* Properties of the order of limiter and identity check, checked under Spec *)

\* The interceptor's call of Allow, and its call of ValidateJWT with what
\* follows it.
LimiterStep == hasLimiter /\ call.pc = "limit" /\ call'.pc # "limit"
ValidationStep == call.pc = "validate" /\ call'.pc = "done"

\* C29: rate-limit state is charged before authentication: every non-public
\* call with a well-formed Bearer header creates or debits the bucket keyed
\* by its raw credential, the empty one included, whatever validation will
\* say; a first-seen bearer string adds one bucket; and the validation that
\* follows, failing or not, leaves the bucket map as charged, without refund.
C29_ChargedBeforeAuthentication ==
    /\ [][LimiterStep =>
              /\ call'.nValidate = 0
              /\ call.token \in DOMAIN buckets'
              /\ call.token \notin DOMAIN buckets =>
                     /\ Cardinality(DOMAIN buckets') = Stats + 1
                     /\ buckets'[call.token].tokens = Whole(capacity - 1)
              /\ (call.token \in DOMAIN buckets /\ call'.allowed = "yes") =>
                     buckets'[call.token].tokens
                         = Cap(Refill(buckets[call.token])) - Whole(1)]_vars
    /\ [][ValidationStep => buckets' = buckets]_vars
    /\ [](call.pc = "validate" => (hasLimiter <=> call.nAllow = 1))

C29_Witness ==
    /\ call.pc = "done"
    /\ call.result = "Unauthenticated"
    /\ call.nValidate = 1
    /\ call.allowed = "yes"
    /\ call.token = <<>>
    /\ call.token \in DOMAIN buckets
    /\ buckets[call.token].tokens = Whole(capacity - 1)
    /\ Stats = Cardinality(Creds)

-----------------------------------------------------------------------------
(* Properties of what a step leaves alone, checked under FrameSpec *)

\* The credentials whose bucket the step created, removed or changed.
Changed ==
    {c \in Creds :
        \/ (c \in DOMAIN buckets) # (c \in DOMAIN buckets')
        \/ c \in DOMAIN buckets /\ c \in DOMAIN buckets' /\ buckets[c] # buckets'[c]}

\* A call enters the interceptor and is forwarded as public or rejected at
\* credential extraction.
EndsAtEntry ==
    /\ call.pc \in {"idle", "done"}
    /\ call' # call
    /\ call'.pc = "done"

\* C30: Allow(c), as the interceptor calls it on a call's credential, and
\* Reset(c) change no bucket but c's; a call rejected at extraction or
\* forwarded as public leaves the whole bucket map unchanged.
C30_Frame ==
    /\ [][(lastReset'.called /\ ~lastReset'.followed /\ lastReset' # lastReset) =>
              Changed \subseteq {lastReset'.cred}]_vars
    /\ [][LimiterStep => Changed \subseteq {call.token}]_vars
    /\ [][EndsAtEntry =>
              /\ buckets' = buckets
              /\ call'.nAllow = 0
              /\ \/ call'.result = "forwarded" /\ call'.method \in publicMethods
                 \/ call'.result = "Unauthenticated" /\ BadCredential(call'.ctx)]_vars

C30_Witness ==
    /\ lastReset.called
    /\ ~lastReset.followed
    /\ lastReset.cred \in DOMAIN lastReset.pre
    /\ lastReset.cred \notin DOMAIN buckets
    /\ buckets # EmptyMap
    /\ call.pc = "done"
    /\ call.nAllow = 0
    /\ call.result = "Unauthenticated"

====
